---- MODULE Spec2Model ----
(***************************************************************************)
(* Frame-resource ring of TreeBillboardsApp: the CPU frame loop            *)
(* (Update; Draw) racing the GPU timeline behind a command queue and a     *)
(* fence, the dirty-counter propagation of object and material constants,  *)
(* and the streaming of the wave solution into the current slot.           *)
(*                                                                         *)
(* Time is counted in units of 1/8 s.  Texture offsets are counted in      *)
(* units of 0.0025, so that 0.1f*dt and 0.02f*dt are whole numbers.        *)
(***************************************************************************)
EXTENDS Integers, Sequences, FiniteSets, TLC

(***************************************************************************)
(* Program constants.                                                      *)
(***************************************************************************)
gNumFrameResources == 3
\* MatCBIndex of the "water" material: the third one BuildMaterials numbers.
WaterMat == 2
\* ObjCBIndex of the waves render item: the first one BuildRenderItems numbers.
WavesRitem == 0
\* 0.25f seconds, the disturb period of UpdateWaves.
QuarterSecond == 2
\* tu += 0.1f * dt and tv += 0.02f * dt, and the wrap at 1.0f.
TuRate == 5
TvRate == 1
TexOne == 400
\* mCurrentFence after Initialize has flushed the command queue once.
InitFence == 1
\* Waves(305, 150, 1.0f, 0.03f, 4.0f, 0.2f): the time step in hundredths of a
\* second, and the three coefficients of the stencil that follow from the
\* spatial step, time step, speed and damping, in thousandths:
\* (damping*dt - 2)/d, (4 - 8e)/d and 2e/d with d = damping*dt + 2 and
\* e = speed^2 * dt^2 / dx^2.
WaveTimeStep == 3
WaveK1 == -994
WaveK2 == 1937
WaveK3 == 14
WaveScale == 1000
\* Waves(305, 150, ...): mWaves->RowCount() and mWaves->ColumnCount().
RowCount == 305
ColumnCount == 150
\* RandF(0.2f, 0.5f), the magnitude of a disturb, in thousandths.
MagLow == 200
MagHigh == 500

(***************************************************************************)
(* Bounds of the model.                                                    *)
(***************************************************************************)
\* The wave grid, the calls made on it and the longest elapsed time of a call.
WaveRows == 5
WaveCols == 5
MaxWaveCalls == 3
MaxWaveDelta == 4

NumRitems == 4
NumMaterials == 3
VertexCount == 3
MaxTicks == 7
MaxDelta == 3

Slots == 0 .. gNumFrameResources - 1
Ritems == 0 .. NumRitems - 1
Materials == 0 .. NumMaterials - 1
Vertices == 0 .. VertexCount - 1
\* gt.DeltaTime(): a short tick of 1/8 s or a long one of MaxDelta/8 s.
DeltaTimes == {1, MaxDelta}

VARIABLES
    pc,                      \* position of the CPU thread in Run's loop
    tick,                    \* number of Updates begun
    mCurrFrameResourceIndex,
    frFence,                 \* FrameResource::Fence of every slot
    cmdListAlloc,            \* FrameResource::CmdListAlloc of every slot
    mCurrentFence,           \* the global fence counter
    completedValue,          \* mFence->GetCompletedValue()
    cmdQueue,                \* mCommandQueue: work the GPU has not consumed yet
    mCommandList,            \* the draws recorded by the last Draw
    objectCB, materialCB, passCB, wavesVB,   \* the slots' upload buffers
    ritemDirty,              \* RenderItem::NumFramesDirty
    matDirty,                \* Material::NumFramesDirty
    matTransform,            \* Material::MatTransform
    waterGeoVB,              \* mGeometries["waterGeo"]->VertexBufferGPU
    mWaves,                  \* the wave simulator
    totalTime, deltaTime,    \* mTimer
    t_base,                  \* the static of UpdateWaves
    \* history, read by the properties only
    selHistory,              \* the last gNumFrameResources slots selected
    waited,                  \* whether the current Update blocked on the fence
    cpuWrite,                \* the last CPU write into a slot's buffers
    objWrites, matWrites,    \* writes per slot and entity since its last re-arm
    objSince, matSince,      \* update passes per entity since its last re-arm
    vbWrites,                \* writes per slot and vertex in the current tick
    tickLog,                 \* the steps of the current tick, in order
    \* the device, as the application's calls find it
    gpu,                     \* "running", "hung" or "removed"
    \* the wave field taken by itself, driven by its own calls
    waveField,               \* its previous and current height grids
    waveElapsed,             \* elapsed time not yet turned into a step
    waveCalls,               \* the calls made on it, in order
    waveBefore,              \* the current grid as the last call found it
    disturbAt                \* the cell of the Disturb call UpdateWaves is in

vars == << pc, tick, mCurrFrameResourceIndex, frFence, cmdListAlloc,
           mCurrentFence,
           completedValue, cmdQueue, mCommandList, objectCB, materialCB,
           passCB, wavesVB, ritemDirty, matDirty, matTransform, waterGeoVB,
           mWaves, totalTime, deltaTime, t_base, selHistory, waited, cpuWrite,
           objWrites, matWrites, objSince, matSince, vbWrites, tickLog,
           gpu, waveField, waveElapsed, waveCalls, waveBefore, disturbAt >>

WaveFieldVars == << waveField, waveElapsed, waveCalls, waveBefore >>

(***************************************************************************)
(* Matrices, kept as their entries that are not those of the identity.     *)
(***************************************************************************)
XMMatrixTranspose(M) ==
    [p \in {<<q[2], q[1]>> : q \in DOMAIN M} |-> M[<<p[2], p[1]>>]]

Identity4x4 == [p \in {} |-> 0]

\* Material::MatTransform with (3,0) = tu and (3,1) = tv.
MatTransformOf(tu, tv) == <<3, 0>> :> tu @@ <<3, 1>> :> tv

(***************************************************************************)
(* Scene content built by BuildRenderItems and BuildMaterials.             *)
(***************************************************************************)
\* The waves item comes first and is transparent, the tree sprites come last.
LayerOf(i) ==
    IF i = WavesRitem THEN "Transparent"
    ELSE IF i = NumRitems - 1 THEN "AlphaTestedTreeSprites"
    ELSE "Opaque"

\* mAllRitems: the items in the order BuildRenderItems moves them into it.
mAllRitems == [k \in 1 .. NumRitems |-> k - 1]

\* The mRitemLayer[...].push_back calls BuildRenderItems makes for an item.
LayerPushes_Twice(i) == << LayerOf(i), LayerOf(i) >>
LayerPushes(i) == << LayerOf(i) >>

\* The list of a layer after the pushes of the items from position k on.
RECURSIVE LayerList(_, _)
LayerList(layer, k) ==
    IF k > Len(mAllRitems) THEN << >>
    ELSE LET into == SelectSeq(LayerPushes(mAllRitems[k]),
                               LAMBDA l : l = layer)
         IN  [n \in 1 .. Len(into) |-> mAllRitems[k]] \o LayerList(layer, k + 1)

\* mRitemLayer[layer]: the items of a layer in the order of their push_back.
mRitemLayer(layer) == LayerList(layer, 1)

\* RenderItem::World: a placement that tells the items apart.
RitemWorld(i) == IF i = WavesRitem THEN Identity4x4 ELSE <<3, 1>> :> i

\* RenderItem::TexTransform: XMMatrixScaling(5, 5, 1) for the waves and the land.
RitemTexTransform(i) ==
    IF i <= 1 THEN <<0, 0>> :> 5 @@ <<1, 1>> :> 5 ELSE Identity4x4

\* DiffuseAlbedo, FresnelR0 and Roughness of a material, as one value.
MatFields(m) == <<"albedo", m>>

\* RenderItem::Mat, as the material's MatCBIndex.
RitemMat(i) == IF i = WavesRitem THEN WaterMat ELSE IF i = 1 THEN 0 ELSE 1

\* RenderItem::ObjCBIndex: BuildRenderItems gives the items, in the order in
\* which it makes them, the values of a counter that starts at 0 (objCBIndex++).
NextObjCBIndex_Stuck(counter) == counter
NextObjCBIndex(counter) == counter + 1

RECURSIVE AssignObjCBIndex(_, _)
AssignObjCBIndex(k, counter) ==
    IF k >= NumRitems THEN << >>
    ELSE << counter >> \o AssignObjCBIndex(k + 1, NextObjCBIndex(counter))

ObjCBIndex(i) == AssignObjCBIndex(0, 0)[i + 1]

\* RenderItem::Geo and the sub-range of it the item draws.
RitemGeo(i) ==
    IF i = WavesRitem THEN "waterGeo"
    ELSE IF i = 1 THEN "landGeo"
    ELSE IF i = NumRitems - 1 THEN "treeSpritesGeo"
    ELSE "boxGeo"

RitemDrawArgs(i) ==
    [IndexCount |-> << "IndexCount", RitemGeo(i) >>,
     StartIndexLocation |-> << "StartIndexLocation", RitemGeo(i) >>,
     BaseVertexLocation |-> << "BaseVertexLocation", RitemGeo(i) >>]

\* RenderItem::NumFramesDirty as constructed.
RitemInitDirty_Short == gNumFrameResources - 1
RitemInitDirty == gNumFrameResources

\* Material::NumFramesDirty as constructed.
MatInitDirty == gNumFrameResources

\* The vertex buffer a render item's geometry refers to when it is drawn.
DefaultVB(i) == [kind |-> "default", geo |-> i]
NullVB == [kind |-> "null"]
WavesVBOf(s) == [kind |-> "wavesVB", slot |-> s]

(***************************************************************************)
(* Initialize: the materials and the render items are built before the     *)
(* frame resources, whose buffers are sized by what exists at that time.   *)
(***************************************************************************)
InitializeOrder_Early ==
    << "BuildFrameResources", "BuildMaterials", "BuildRenderItems" >>
InitializeOrder ==
    << "BuildMaterials", "BuildRenderItems", "BuildFrameResources" >>

BuildStep(step, b) ==
    CASE step = "BuildMaterials" -> [b EXCEPT !.materials = NumMaterials]
      [] step = "BuildRenderItems" -> [b EXCEPT !.ritems = NumRitems]
      [] step = "BuildFrameResources" ->
            [b EXCEPT !.objectCount = b.ritems,
                      !.materialCount = b.materials,
                      !.waveVertCount = VertexCount]

RECURSIVE RunBuilds(_, _)
RunBuilds(steps, b) ==
    IF steps = << >> THEN b
    ELSE RunBuilds(Tail(steps), BuildStep(Head(steps), b))

\* What Initialize has built: mMaterials.size(), mAllRitems.size() and the
\* capacities the FrameResource constructor was given.
Built ==
    RunBuilds(InitializeOrder,
              [materials |-> 0, ritems |-> 0, objectCount |-> 0,
               materialCount |-> 0, waveVertCount |-> 0])

(***************************************************************************)
(* Upload buffers: an element is <<>> until it is first written.           *)
(***************************************************************************)
CopyData(buf, elementIndex, data) == [buf EXCEPT ![elementIndex] = <<data>>]

ObjectConstantsOf(i) ==
    [World |-> XMMatrixTranspose(RitemWorld(i)),
     TexTransform |-> XMMatrixTranspose(RitemTexTransform(i))]

\* DiffuseAlbedo, FresnelR0 and Roughness are copied as they are.
MaterialConstantsOf(m, transform) ==
    [Fields |-> MatFields(m), MatTransform |-> XMMatrixTranspose(transform)]

(***************************************************************************)
(* The wave simulator, known to this file only through its interface: its  *)
(* solution is identified by the disturbs and the time it has integrated.  *)
(***************************************************************************)
Waves_Disturb(w) == [w EXCEPT !.disturbs = @ + 1, !.unadvanced = @ + 1]
Waves_Update(w, dt) == [w EXCEPT !.t = @ + dt, !.unadvanced = 0]
Waves_Position(w, i) == <<i, w.disturbs, w.t>>
Waves_Normal(w, i) == <<i, w.disturbs, w.t>>

WaveVertex(w, i) ==
    [Pos |-> Waves_Position(w, i), Normal |-> Waves_Normal(w, i), TexC |-> i]

(***************************************************************************)
(* The wave field's height grids.  Heights are in thousandths, times in    *)
(* hundredths of a second; the coefficients are those of the arguments     *)
(* Initialize gives the simulator (spatial step 1, time step 0.03, speed   *)
(* 4, damping 0.2), in thousandths.                                        *)
(***************************************************************************)
WaveCells == (0 .. WaveRows - 1) \X (0 .. WaveCols - 1)

WaveInterior ==
    { c \in WaveCells : /\ c[1] \in 1 .. WaveRows - 2
                        /\ c[2] \in 1 .. WaveCols - 2 }

WaveBoundary == WaveCells \ WaveInterior

WaveNeighbours(c) ==
    { << c[1] - 1, c[2] >>, << c[1] + 1, c[2] >>,
      << c[1], c[2] - 1 >>, << c[1], c[2] + 1 >> }

\* create: both grids at rest.
WaveField_Create ==
    [previous |-> [c \in WaveCells |-> 0], current |-> [c \in WaveCells |-> 0]]

\* The cells disturb may be called with: those whose neighbours are interior.
DisturbCells_Edge == WaveInterior
DisturbCells ==
    { c \in WaveCells : /\ c[1] \in 2 .. WaveRows - 3
                        /\ c[2] \in 2 .. WaveCols - 3 }

\* The weights of disturb: the whole magnitude at the centre, half of it at
\* each of the four neighbours.
DisturbWeight_Flat(c, centre, magnitude) ==
    IF c = centre \/ c \in WaveNeighbours(centre) THEN magnitude ELSE 0
DisturbWeight(c, centre, magnitude) ==
    IF c = centre THEN magnitude
    ELSE IF c \in WaveNeighbours(centre) THEN magnitude \div 2
    ELSE 0

\* disturb(row, col, magnitude).
WaveField_Disturb(f, centre, magnitude) ==
    [f EXCEPT !.current =
        [c \in WaveCells |-> f.current[c] + DisturbWeight(c, centre, magnitude)]]

\* One step of advance: the stencil on every interior vertex, written over
\* the previous grid, whose boundary is left as it is; then the grids rotate.
WaveStencil(f, c) ==
    ( WaveK1 * f.previous[c] + WaveK2 * f.current[c]
      + WaveK3 * ( f.current[<< c[1] + 1, c[2] >>]
                   + f.current[<< c[1] - 1, c[2] >>]
                   + f.current[<< c[1], c[2] + 1 >>]
                   + f.current[<< c[1], c[2] - 1 >>] ) ) \div WaveScale

WaveStep(f) ==
    [previous |-> f.current,
     current |-> [c \in WaveCells |->
                    IF c \in WaveInterior THEN WaveStencil(f, c)
                    ELSE f.previous[c]]]

RECURSIVE WaveSteps(_, _)
WaveSteps(f, n) == IF n = 0 THEN f ELSE WaveSteps(WaveStep(f), n - 1)

\* advance(elapsedTime): the whole steps available in the accumulated time.
StepsAvailable(elapsed) == elapsed \div WaveTimeStep

(***************************************************************************)
(* Update: the ring and the fence.                                         *)
(***************************************************************************)
\* int mCurrFrameResourceIndex = 0;
InitFrameResourceIndex_Last == gNumFrameResources - 1
InitFrameResourceIndex == 0

NextFrameResourceIndex_Skip(i) == (i + 2) % gNumFrameResources
NextFrameResourceIndex(i) == (i + 1) % gNumFrameResources

\* mCurrFrameResource = mFrameResources[mCurrFrameResourceIndex].get();
\* named, like every slot, by its index in mFrameResources.
CurrFrameResource_Other(index) == (index + 1) % gNumFrameResources
CurrFrameResource(index) == index

mCurrFrameResource == CurrFrameResource(mCurrFrameResourceIndex)

\* The condition of the if in Update.
MustWait_Never(slotFence, done) == FALSE
MustWait_Late(slotFence, done) == slotFence # 0 /\ done + 1 < slotFence
MustWait(slotFence, done) == slotFence # 0 /\ done < slotFence

\* WaitForSingleObject on the event of SetEventOnCompletion(slotFence).
FenceReached_Early(slotFence, done) == TRUE
FenceReached(slotFence, done) == done >= slotFence

WritePhases ==
    {"AnimateMaterials", "UpdateObjectCBs", "UpdateMaterialCBs",
     "UpdateMainPassCB", "UpdateWaves"}

PendingExec(q, s) == \E k \in 1 .. Len(q) : q[k].op = "exec" /\ q[k].slot = s

\* What a CPU write into slot s finds of the GPU's progress.
WriteRecord(s) ==
    [slot |-> s, stamp |-> frFence[s], done |-> completedValue,
     pending |-> PendingExec(cmdQueue, s)]

LastN(seq) ==
    IF Len(seq) > gNumFrameResources
    THEN SubSeq(seq, Len(seq) - gNumFrameResources + 1, Len(seq))
    ELSE seq

\* Update up to the fence check: the timer ticks, the ring advances and the
\* thread either blocks on the slot's fence or goes on to its five calls, which
\* are its next steps.  OnKeyboardInput moves the camera only.
Update ==
    /\ pc = "Update"
    /\ tick < MaxTicks
    /\ \E dt \in DeltaTimes :
          /\ deltaTime' = dt
          /\ totalTime' = totalTime + dt
    /\ tick' = tick + 1
    /\ mCurrFrameResourceIndex' = NextFrameResourceIndex(mCurrFrameResourceIndex)
    /\ selHistory' = LastN(Append(selHistory, mCurrFrameResourceIndex'))
    /\ LET wait == MustWait(frFence[mCurrFrameResourceIndex'], completedValue)
       IN  /\ waited' = wait
           /\ pc' = IF wait THEN "Wait" ELSE "AnimateMaterials"
    /\ vbWrites' = [s \in Slots |-> [v \in Vertices |-> 0]]
    /\ tickLog' = << "select" >>
    /\ UNCHANGED << gpu, cmdListAlloc, WaveFieldVars, disturbAt >>
    /\ UNCHANGED << frFence, mCurrentFence, completedValue, cmdQueue,
                    mCommandList, objectCB, materialCB, passCB, wavesVB,
                    ritemDirty, matDirty, matTransform, waterGeoVB, mWaves,
                    t_base, cpuWrite, objWrites, matWrites, objSince,
                    matSince >>

\* The wait of Update returns.
FenceWait ==
    /\ pc = "Wait"
    /\ FenceReached(frFence[mCurrFrameResourceIndex], completedValue)
    /\ pc' = "AnimateMaterials"
    /\ tickLog' = Append(tickLog, "wait")
    /\ UNCHANGED << gpu, cmdListAlloc, WaveFieldVars, disturbAt >>
    /\ UNCHANGED << tick, mCurrFrameResourceIndex, frFence, mCurrentFence,
                    completedValue, cmdQueue, mCommandList, objectCB,
                    materialCB, passCB, wavesVB, ritemDirty, matDirty,
                    matTransform, waterGeoVB, mWaves, totalTime, deltaTime,
                    t_base, selHistory, waited, cpuWrite, objWrites,
                    matWrites, objSince, matSince, vbWrites >>

(***************************************************************************)
(* Update: the writes into the selected slot.                              *)
(***************************************************************************)
WrapTex(t) == IF t >= TexOne THEN t - TexOne ELSE t

\* waterMat->NumFramesDirty = gNumFrameResources at the end of AnimateMaterials.
WaterRearm_Forgotten(n) == n
WaterRearm(n) == gNumFrameResources

AnimateMaterials ==
    /\ pc = "AnimateMaterials"
    /\ LET tu == WrapTex(matTransform[WaterMat][<<3, 0>>] + TuRate * deltaTime)
           tv == WrapTex(matTransform[WaterMat][<<3, 1>>] + TvRate * deltaTime)
       IN  matTransform' = [matTransform EXCEPT ![WaterMat] = MatTransformOf(tu, tv)]
    /\ matDirty' = [matDirty EXCEPT ![WaterMat] = WaterRearm(@)]
    /\ matSince' = [matSince EXCEPT ![WaterMat] = 0]
    /\ matWrites' = [s \in Slots |-> [matWrites[s] EXCEPT ![WaterMat] = 0]]
    /\ pc' = "UpdateObjectCBs"
    /\ tickLog' = Append(tickLog, "AnimateMaterials")
    /\ UNCHANGED << gpu, cmdListAlloc, WaveFieldVars, disturbAt >>
    /\ UNCHANGED << tick, mCurrFrameResourceIndex, frFence, mCurrentFence,
                    completedValue, cmdQueue, mCommandList, objectCB,
                    materialCB, passCB, wavesVB, ritemDirty, waterGeoVB,
                    mWaves, totalTime, deltaTime, t_base, selHistory, waited,
                    cpuWrite, objWrites, objSince, vbWrites >>

\* if(e->NumFramesDirty > 0) ... e->NumFramesDirty--;
NeedsUpdate_Always(numFramesDirty) == TRUE
NeedsUpdate(numFramesDirty) == numFramesDirty > 0
DirtyAfterWrite_Stuck(numFramesDirty) == numFramesDirty
DirtyAfterWrite(numFramesDirty) == numFramesDirty - 1

\* The loop of UpdateObjectCBs over mAllRitems, from item i on.
RECURSIVE ObjectCBLoop(_, _)
ObjectCBLoop(buf, i) ==
    IF i >= NumRitems THEN buf
    ELSE IF NeedsUpdate(ritemDirty[i])
         THEN ObjectCBLoop(CopyData(buf, ObjCBIndex(i), ObjectConstantsOf(i)),
                           i + 1)
         ELSE ObjectCBLoop(buf, i + 1)

UpdateObjectCBs ==
    /\ pc = "UpdateObjectCBs"
    /\ LET cur == mCurrFrameResource
           written == {i \in Ritems : NeedsUpdate(ritemDirty[i])}
       IN  /\ objectCB' = [objectCB EXCEPT ![cur] = ObjectCBLoop(@, 0)]
           /\ ritemDirty' = [i \in Ritems |->
                                IF i \in written
                                THEN DirtyAfterWrite(ritemDirty[i])
                                ELSE ritemDirty[i]]
           /\ objWrites' = [objWrites EXCEPT ![cur] =
                                [i \in Ritems |->
                                    IF i \in written THEN @[i] + 1 ELSE @[i]]]
           /\ cpuWrite' = IF written # {} THEN WriteRecord(cur) ELSE cpuWrite
    /\ objSince' = [i \in Ritems |-> objSince[i] + 1]
    /\ pc' = "UpdateMaterialCBs"
    /\ tickLog' = Append(tickLog, "UpdateObjectCBs")
    /\ UNCHANGED << gpu, cmdListAlloc, WaveFieldVars, disturbAt >>
    /\ UNCHANGED << tick, mCurrFrameResourceIndex, frFence, mCurrentFence,
                    completedValue, cmdQueue, mCommandList, materialCB,
                    passCB, wavesVB, matDirty, matTransform, waterGeoVB,
                    mWaves, totalTime, deltaTime, t_base, selHistory, waited,
                    matWrites, matSince, vbWrites >>

\* The loop of UpdateMaterialCBs over mMaterials, from material m on.
RECURSIVE MaterialCBLoop(_, _)
MaterialCBLoop(buf, m) ==
    IF m >= NumMaterials THEN buf
    ELSE IF NeedsUpdate(matDirty[m])
         THEN MaterialCBLoop(
                  CopyData(buf, m, MaterialConstantsOf(m, matTransform[m])),
                  m + 1)
         ELSE MaterialCBLoop(buf, m + 1)

UpdateMaterialCBs ==
    /\ pc = "UpdateMaterialCBs"
    /\ LET cur == mCurrFrameResource
           written == {m \in Materials : NeedsUpdate(matDirty[m])}
       IN  /\ materialCB' = [materialCB EXCEPT ![cur] = MaterialCBLoop(@, 0)]
           /\ matDirty' = [m \in Materials |->
                              IF m \in written
                              THEN DirtyAfterWrite(matDirty[m])
                              ELSE matDirty[m]]
           /\ matWrites' = [matWrites EXCEPT ![cur] =
                                [m \in Materials |->
                                    IF m \in written THEN @[m] + 1 ELSE @[m]]]
           /\ cpuWrite' = IF written # {} THEN WriteRecord(cur) ELSE cpuWrite
    /\ matSince' = [m \in Materials |-> matSince[m] + 1]
    /\ pc' = "UpdateMainPassCB"
    /\ tickLog' = Append(tickLog, "UpdateMaterialCBs")
    /\ UNCHANGED << gpu, cmdListAlloc, WaveFieldVars, disturbAt >>
    /\ UNCHANGED << tick, mCurrFrameResourceIndex, frFence, mCurrentFence,
                    completedValue, cmdQueue, mCommandList, objectCB, passCB,
                    wavesVB, ritemDirty, matTransform, waterGeoVB, mWaves,
                    totalTime, deltaTime, t_base, selHistory, waited,
                    objWrites, objSince, vbWrites >>

UpdateMainPassCB ==
    /\ pc = "UpdateMainPassCB"
    /\ LET cur == mCurrFrameResource
           mMainPassCB == [TotalTime |-> totalTime, DeltaTime |-> deltaTime]
       IN  /\ passCB' = [passCB EXCEPT ![cur] = CopyData(@, 0, mMainPassCB)]
           /\ cpuWrite' = WriteRecord(cur)
    /\ pc' = "UpdateWaves"
    /\ tickLog' = Append(tickLog, "UpdateMainPassCB")
    /\ UNCHANGED << gpu, cmdListAlloc, WaveFieldVars, disturbAt >>
    /\ UNCHANGED << tick, mCurrFrameResourceIndex, frFence, mCurrentFence,
                    completedValue, cmdQueue, mCommandList, objectCB,
                    materialCB, wavesVB, ritemDirty, matDirty, matTransform,
                    waterGeoVB, mWaves, totalTime, deltaTime, t_base,
                    selHistory, waited, objWrites, matWrites, objSince,
                    matSince, vbWrites >>

\* for(int i = 0; i < mWaves->VertexCount(); ++i): the loop ends at i.
WaveLoopEnds_Early(i) == i >= VertexCount - 1
WaveLoopEnds(i) == i >= VertexCount

\* The copy loop of UpdateWaves from vertex i on: the buffer and its writes.
RECURSIVE WaveCopyLoop(_, _, _)
WaveCopyLoop(acc, w, i) ==
    IF WaveLoopEnds(i) THEN acc
    ELSE WaveCopyLoop(
             [buf |-> CopyData(acc.buf, i, WaveVertex(w, i)),
              writes |-> [acc.writes EXCEPT ![i] = @ + 1]],
             w, i + 1)

\* mWavesRitem->Geo->VertexBufferGPU = currWavesVB->Resource();
RebindWavesVB_Stale(old, cur) == old
RebindWavesVB(old, cur) == WavesVBOf(cur)

\* The simulator after the two calls UpdateWaves makes on it: Disturb, when
\* one is due, and then Update.
WavesAfterTick_AdvanceFirst(w, due, dt) ==
    IF due THEN Waves_Disturb(Waves_Update(w, dt)) ELSE Waves_Update(w, dt)
WavesAfterTick(w, due, dt) ==
    Waves_Update(IF due THEN Waves_Disturb(w) ELSE w, dt)

UpdateWaves ==
    /\ pc = "UpdateWaves"
    /\ LET cur == mCurrFrameResource
           due == (totalTime - t_base) >= QuarterSecond
           w == WavesAfterTick(mWaves, due, deltaTime)
           copied == WaveCopyLoop([buf |-> wavesVB[cur], writes |-> vbWrites[cur]],
                                  w, 0)
       IN  /\ t_base' = IF due THEN t_base + QuarterSecond ELSE t_base
           /\ mWaves' = w
           /\ wavesVB' = [wavesVB EXCEPT ![cur] = copied.buf]
           /\ vbWrites' = [vbWrites EXCEPT ![cur] = copied.writes]
           /\ waterGeoVB' = RebindWavesVB(waterGeoVB, cur)
           /\ cpuWrite' = WriteRecord(cur)
    /\ pc' = "Draw"
    /\ tickLog' = Append(tickLog, "UpdateWaves")
    /\ UNCHANGED << gpu, cmdListAlloc, WaveFieldVars, disturbAt >>
    /\ UNCHANGED << tick, mCurrFrameResourceIndex, frFence, mCurrentFence,
                    completedValue, cmdQueue, mCommandList, objectCB,
                    materialCB, passCB, ritemDirty, matDirty, matTransform,
                    totalTime, deltaTime, selHistory, waited, objWrites,
                    matWrites, objSince, matSince >>

(***************************************************************************)
(* Draw: record the layers, submit, stamp the slot and signal the fence.   *)
(***************************************************************************)
\* Geo->VertexBufferView() of a render item.
VertexBufferOf(i) == IF i = WavesRitem THEN waterGeoVB ELSE DefaultVB(i)

\* The body of the loop of DrawRenderItems: the bindings and the
\* DrawIndexedInstanced of one item.  A constant-buffer address is the slot
\* whose buffer it points into and the element it points at.
DrawCall(ri) ==
    [item |-> ri,
     vb |-> VertexBufferOf(ri),
     objCB |-> <<mCurrFrameResource, ObjCBIndex(ri)>>,
     matCB |-> <<mCurrFrameResource, RitemMat(ri)>>,
     instances |-> 1,
     IndexCount |-> RitemDrawArgs(ri).IndexCount,
     StartIndexLocation |-> RitemDrawArgs(ri).StartIndexLocation,
     BaseVertexLocation |-> RitemDrawArgs(ri).BaseVertexLocation]

\* DrawRenderItems: one indexed draw per item of the list, in its order.
DrawRenderItems_SkipFirst(ritems) ==
    [k \in 1 .. Len(ritems) - 1 |-> DrawCall(ritems[k + 1])]
DrawRenderItems(ritems) ==
    [k \in 1 .. Len(ritems) |-> DrawCall(ritems[k])]

\* The order in which Draw hands the layers to DrawRenderItems.
DrawLayerOrder_Enum ==
    << "Opaque", "Transparent", "AlphaTested", "AlphaTestedTreeSprites" >>
DrawLayerOrder ==
    << "Opaque", "AlphaTested", "AlphaTestedTreeSprites", "Transparent" >>

RECURSIVE RecordLayers(_)
RecordLayers(layers) ==
    IF layers = << >> THEN << >>
    ELSE DrawRenderItems(mRitemLayer(Head(layers))) \o RecordLayers(Tail(layers))

\* mCurrFrameResource->Fence = ++mCurrentFence;
NextFence_Same(f) == f
NextFence(f) == f + 1

\* ExecuteCommandLists(...) and, after it, Signal(mFence, value).
SubmitThenSignal_Swapped(q, s, value) ==
    Append(Append(q, [op |-> "signal", value |-> value]),
           [op |-> "exec", slot |-> s])
SubmitThenSignal_NoSignal(q, s, value) == Append(q, [op |-> "exec", slot |-> s])
SubmitThenSignal(q, s, value) ==
    Append(Append(q, [op |-> "exec", slot |-> s]),
           [op |-> "signal", value |-> value])

\* Draw, after its resets: the layers are recorded, the list is closed and
\* handed to the queue, the swap chain presents, and then the slot is stamped
\* and the queue is told to signal.
DrawSteps_SignalFirst == << "record", "submit", "signal", "present" >>
DrawSteps == << "record", "submit", "present", "signal" >>

\* auto cmdListAlloc = mCurrFrameResource->CmdListAlloc: the allocator that
\* Draw resets.
AllocatorToReset_Next(slot) == (slot + 1) % gNumFrameResources
AllocatorToReset(slot) == slot

\* cmdListAlloc->Reset() and the recording that follows it: the allocator
\* lets go of what it held and holds the commands of the new list.
AllocatorReset(alloc, commands) ==
    [resets |-> alloc.resets + 1, commands |-> commands]

Draw ==
    /\ pc = "Draw"
    /\ mCommandList' = RecordLayers(DrawLayerOrder)
    /\ cmdListAlloc' = [cmdListAlloc EXCEPT ![AllocatorToReset(mCurrFrameResource)] =
                            AllocatorReset(@, mCommandList')]
    /\ mCurrentFence' = NextFence(mCurrentFence)
    /\ frFence' = [frFence EXCEPT ![mCurrFrameResource] = mCurrentFence']
    /\ cmdQueue' = SubmitThenSignal(cmdQueue, mCurrFrameResource,
                                    mCurrentFence')
    /\ pc' = "Update"
    /\ tickLog' = tickLog \o DrawSteps
    /\ UNCHANGED << gpu, WaveFieldVars, disturbAt >>
    /\ UNCHANGED << tick, mCurrFrameResourceIndex, completedValue, objectCB,
                    materialCB, passCB, wavesVB, ritemDirty, matDirty,
                    matTransform, waterGeoVB, mWaves, totalTime, deltaTime,
                    t_base, selHistory, waited, cpuWrite, objWrites,
                    matWrites, objSince, matSince, vbWrites >>

(***************************************************************************)
(* The GPU timeline: it consumes the command queue in submission order.    *)
(***************************************************************************)
GpuVars == << pc, tick, mCurrFrameResourceIndex, frFence, cmdListAlloc,
              mCurrentFence,
              mCommandList, objectCB, materialCB, passCB, wavesVB,
              ritemDirty, matDirty, matTransform, waterGeoVB, mWaves,
              totalTime, deltaTime, t_base, selHistory, waited, cpuWrite,
              objWrites, matWrites, objSince, matSince, vbWrites, tickLog,
              gpu, WaveFieldVars, disturbAt >>

\* The GPU finishes the command list at the head of the queue.
GpuExecute ==
    /\ gpu = "running"
    /\ cmdQueue # << >>
    /\ Head(cmdQueue).op = "exec"
    /\ cmdQueue' = Tail(cmdQueue)
    /\ UNCHANGED completedValue
    /\ UNCHANGED GpuVars

\* The GPU reaches a Signal: the fence takes its value.
GpuSignal ==
    /\ gpu = "running"
    /\ cmdQueue # << >>
    /\ Head(cmdQueue).op = "signal"
    /\ completedValue' = Head(cmdQueue).value
    /\ cmdQueue' = Tail(cmdQueue)
    /\ UNCHANGED GpuVars

(***************************************************************************)
(* The state Initialize leaves: every slot is fresh, the queue is flushed. *)
(***************************************************************************)
Init ==
    /\ pc = "Update"
    /\ tick = 0
    /\ mCurrFrameResourceIndex = InitFrameResourceIndex
    /\ frFence = [s \in Slots |-> 0]
    /\ cmdListAlloc = [s \in Slots |-> [resets |-> 0, commands |-> << >>]]
    /\ mCurrentFence = InitFence
    /\ completedValue = InitFence
    /\ cmdQueue = << >>
    /\ mCommandList = << >>
    /\ objectCB = [s \in Slots |-> [i \in 0 .. Built.objectCount - 1 |-> << >>]]
    /\ materialCB =
          [s \in Slots |-> [m \in 0 .. Built.materialCount - 1 |-> << >>]]
    /\ passCB = [s \in Slots |-> [k \in {0} |-> << >>]]
    /\ wavesVB = [s \in Slots |-> [v \in 0 .. Built.waveVertCount - 1 |-> << >>]]
    /\ ritemDirty = [i \in Ritems |-> RitemInitDirty]
    /\ matDirty = [m \in Materials |-> MatInitDirty]
    /\ matTransform = [m \in Materials |-> MatTransformOf(0, 0)]
    /\ waterGeoVB = NullVB
    /\ mWaves = [disturbs |-> 0, t |-> 0, unadvanced |-> 0]
    /\ totalTime = 0
    /\ deltaTime = 0
    /\ t_base = 0
    /\ selHistory = << >>
    /\ waited = FALSE
    /\ cpuWrite = [slot |-> 0, stamp |-> 0, done |-> InitFence, pending |-> FALSE]
    /\ objWrites = [s \in Slots |-> [i \in Ritems |-> 0]]
    /\ matWrites = [s \in Slots |-> [m \in Materials |-> 0]]
    /\ objSince = [i \in Ritems |-> 0]
    /\ matSince = [m \in Materials |-> 0]
    /\ vbWrites = [s \in Slots |-> [v \in Vertices |-> 0]]
    /\ tickLog = << >>
    /\ gpu = "running"
    /\ waveField = WaveField_Create
    /\ waveElapsed = 0
    /\ waveCalls = << >>
    /\ waveBefore = WaveField_Create.current
    /\ disturbAt = << >>

Next ==
    \/ Update
    \/ FenceWait
    \/ AnimateMaterials
    \/ UpdateObjectCBs
    \/ UpdateMaterialCBs
    \/ UpdateMainPassCB
    \/ UpdateWaves
    \/ Draw
    \/ GpuExecute
    \/ GpuSignal

Spec == Init /\ [][Next]_vars

\* The loop with a CPU thread that keeps running and a GPU that completes
\* whatever is in its queue.
CpuNext ==
    \/ Update
    \/ FenceWait
    \/ AnimateMaterials
    \/ UpdateObjectCBs
    \/ UpdateMaterialCBs
    \/ UpdateMainPassCB
    \/ UpdateWaves
    \/ Draw

FairSpec ==
    /\ Spec
    /\ WF_vars(CpuNext)
    /\ WF_vars(GpuExecute)
    /\ WF_vars(GpuSignal)

(***************************************************************************)
(* The application's whole life: the loop, the ways the device can fail    *)
(* under it, and the destructor that runs when the loop is left.           *)
(***************************************************************************)
CpuVars == << tick, mCurrFrameResourceIndex, frFence, cmdListAlloc,
              mCommandList, objectCB,
              materialCB, passCB, wavesVB, ritemDirty, matDirty, matTransform,
              waterGeoVB, mWaves, totalTime, deltaTime, t_base, selHistory,
              waited, cpuWrite, objWrites, matWrites, objSince, matSince,
              vbWrites, tickLog, WaveFieldVars, disturbAt >>

\* The GPU stops making progress; the device stays.
GpuHang ==
    /\ gpu = "running"
    /\ gpu' = "hung"
    /\ UNCHANGED << pc, mCurrentFence, completedValue, cmdQueue >>
    /\ UNCHANGED CpuVars

\* The device is removed: its calls return a failure from then on.
DeviceRemoved ==
    /\ gpu = "running"
    /\ gpu' = "removed"
    /\ UNCHANGED << pc, mCurrentFence, completedValue, cmdQueue >>
    /\ UNCHANGED CpuVars

\* ThrowIfFailed(mFence->SetEventOnCompletion(...)) throws; WinMain catches
\* the DxException and shows it in the "HR Failed" message box.
SetEventOnCompletionFails ==
    /\ pc = "Wait"
    /\ gpu = "removed"
    /\ pc' = "HR Failed"
    /\ UNCHANGED << mCurrentFence, completedValue, cmdQueue, gpu >>
    /\ UNCHANGED CpuVars

\* The device the base class created in Initialize.
md3dDevice == "ID3D12Device"

\* The condition of the if in the destructor.
DestructorFlushes_Never(device) == FALSE
DestructorFlushes(device) == device # "nullptr"

\* FlushCommandQueue up to its wait: the counter advances and the queue is
\* told to signal the new value.
FlushCommandQueue(q, value) == Append(q, [op |-> "signal", value |-> value])

\* The destructor, entered when Run has left its loop between two frames.
Destroy ==
    /\ pc = "Update"
    /\ IF DestructorFlushes(md3dDevice)
       THEN /\ mCurrentFence' = mCurrentFence + 1
            /\ cmdQueue' = FlushCommandQueue(cmdQueue, mCurrentFence')
            /\ pc' = "FlushCommandQueue"
       ELSE /\ pc' = "Released"
            /\ UNCHANGED << mCurrentFence, cmdQueue >>
    /\ UNCHANGED << completedValue, gpu >>
    /\ UNCHANGED CpuVars

\* The wait of FlushCommandQueue returns; the destructor ends and the members,
\* the frame resources among them, are released.
FlushReturns ==
    /\ pc = "FlushCommandQueue"
    /\ completedValue >= mCurrentFence
    /\ pc' = "Released"
    /\ UNCHANGED << mCurrentFence, completedValue, cmdQueue, gpu >>
    /\ UNCHANGED CpuVars

NextLifetime ==
    \/ Next
    \/ GpuHang
    \/ DeviceRemoved
    \/ SetEventOnCompletionFails
    \/ Destroy
    \/ FlushReturns

SpecLifetime == Init /\ [][NextLifetime]_vars

(***************************************************************************)
(* The wave field under any caller that keeps to its contract.             *)
(***************************************************************************)
AppVars == << pc, mCurrentFence, completedValue, cmdQueue, gpu, tick,
              mCurrFrameResourceIndex, frFence, cmdListAlloc, mCommandList,
              objectCB,
              materialCB, passCB, wavesVB, ritemDirty, matDirty, matTransform,
              waterGeoVB, mWaves, totalTime, deltaTime, t_base, selHistory,
              waited, cpuWrite, objWrites, matWrites, objSince, matSince,
              vbWrites, tickLog >>

\* The magnitudes UpdateWaves draws: the ends of RandF(0.2f, 0.5f).
Magnitudes == { MagLow, MagHigh }

WaveElapsedTimes == 1 .. MaxWaveDelta

WaveDisturb ==
    /\ Len(waveCalls) < MaxWaveCalls
    /\ \E c \in DisturbCells : \E r \in Magnitudes :
          /\ waveField' = WaveField_Disturb(waveField, c, r)
          /\ waveCalls' = Append(waveCalls,
                                 [op |-> "disturb", cell |-> c, magnitude |-> r,
                                  steps |-> 0])
    /\ waveBefore' = waveField.current
    /\ UNCHANGED << waveElapsed, disturbAt >>
    /\ UNCHANGED AppVars

WaveAdvance ==
    /\ Len(waveCalls) < MaxWaveCalls
    /\ \E dt \in WaveElapsedTimes :
          LET n == StepsAvailable(waveElapsed + dt)
          IN  /\ waveField' = WaveSteps(waveField, n)
              /\ waveElapsed' = (waveElapsed + dt) - n * WaveTimeStep
              /\ waveCalls' = Append(waveCalls,
                                     [op |-> "advance", cell |-> << 0, 0 >>,
                                      magnitude |-> 0, steps |-> n])
    /\ waveBefore' = waveField.current
    /\ UNCHANGED disturbAt
    /\ UNCHANGED AppVars

NextWaves ==
    \/ WaveDisturb
    \/ WaveAdvance

SpecWaves == Init /\ [][NextWaves]_vars

(***************************************************************************)
(* The cell of the disturb of UpdateWaves, on the grid of Initialize.      *)
(***************************************************************************)
\* MathHelper::Rand(a, b): an integer from a to b, both included.
MathHelper_Rand(a, b) == a .. b

\* int i = MathHelper::Rand(4, mWaves->RowCount() - 5);
DisturbRows_Any == MathHelper_Rand(0, RowCount - 1)
DisturbRows == MathHelper_Rand(4, RowCount - 5)

\* int j = MathHelper::Rand(4, mWaves->ColumnCount() - 5);
DisturbColumns == MathHelper_Rand(4, ColumnCount - 5)

\* The branch of UpdateWaves that disturbs, for each cell it can draw: it
\* enters mWaves->Disturb(i, j, r).
UpdateWavesDisturb ==
    /\ disturbAt = << >>
    /\ \E i \in DisturbRows : \E j \in DisturbColumns :
          disturbAt' = << i, j >>
    /\ UNCHANGED AppVars
    /\ UNCHANGED WaveFieldVars

\* The call returns.
DisturbReturns ==
    /\ disturbAt # << >>
    /\ disturbAt' = << >>
    /\ UNCHANGED AppVars
    /\ UNCHANGED WaveFieldVars

NextDisturb ==
    \/ UpdateWavesDisturb
    \/ DisturbReturns

SpecDisturb == Init /\ [][NextDisturb]_vars

(***************************************************************************)
(* Properties.                                                             *)
(***************************************************************************)
cur == mCurrFrameResourceIndex

\* The tick's Update and Draw are both done.
BetweenTicks == pc = "Update" /\ tick > 0

\* C1: no CPU write into a slot's buffers happens while the completed fence
\* value is below the value the slot was last stamped with: every write of an
\* Update finds the fence of its slot reached and no command list of that slot
\* still queued, and the writing steps are only entered in such a state.
C1_WaitThenWrite ==
    /\ cpuWrite.done >= cpuWrite.stamp
    /\ ~cpuWrite.pending
    /\ pc \in WritePhases =>
          /\ completedValue >= frFence[cur]
          /\ ~PendingExec(cmdQueue, cur)

\* A slot that was submitted before is written again after Update blocked.
C1_Witness ==
    /\ pc = "Draw"
    /\ waited
    /\ cpuWrite.slot = cur
    /\ cpuWrite.stamp > InitFence

\* C2: every Update selects slot (previous + 1) mod N: the slots selected by
\* consecutive ticks follow each other in ring order, and any N consecutive
\* ticks select each of the N slots exactly once.
C2_CyclicRotation ==
    /\ \A k \in 1 .. Len(selHistory) - 1 :
          selHistory[k + 1] = (selHistory[k] + 1) % gNumFrameResources
    /\ selHistory # << >> => selHistory[Len(selHistory)] = cur
    /\ Len(selHistory) = gNumFrameResources =>
          /\ {selHistory[k] : k \in 1 .. Len(selHistory)} = Slots
          /\ \A j, k \in 1 .. Len(selHistory) :
                selHistory[j] = selHistory[k] => j = k

\* The ring has gone round more than once.
C2_Witness ==
    /\ tick > 2 * gNumFrameResources
    /\ Len(selHistory) = gNumFrameResources

\* C3: Update blocks exactly when the selected slot's fence value is nonzero
\* and above the completed value; while it is blocked no buffer is written,
\* and it leaves the wait, for the first writing step, only when the completed
\* value has reached the slot's fence value.
C3_BlocksExactlyWhenBehind ==
    [][ /\ (pc = "Update" /\ pc' # "Update") =>
              /\ pc' \in {"Wait", "AnimateMaterials"}
              /\ pc' = "Wait" <=>
                    /\ frFence[cur'] # 0
                    /\ completedValue < frFence[cur']
        /\ pc = "Wait" =>
              /\ << objectCB', materialCB', passCB', wavesVB' >>
                    = << objectCB, materialCB, passCB, wavesVB >>
              /\ pc' # "Wait" =>
                    /\ pc' = "AnimateMaterials"
                    /\ completedValue >= frFence[cur]
      ]_vars

\* Update blocked on a slot in flight and has since gone on to write.
C3_Witness ==
    /\ waited
    /\ pc = "UpdateWaves"
    /\ frFence[cur] # 0

\* C4: every Draw stamps the current slot with the global fence value plus
\* one and enqueues the frame's command list followed by a signal of exactly
\* that value; hence once the completed value has reached a slot's stamp, no
\* command list recorded from that slot is still queued.
C4_StampAndSignal ==
    /\ [](\A s \in Slots :
             (frFence[s] # 0 /\ completedValue >= frFence[s]) =>
                 ~PendingExec(cmdQueue, s))
    /\ [][ (pc = "Draw" /\ pc' # "Draw") =>
              /\ mCurrentFence' = mCurrentFence + 1
              /\ frFence'[cur] = mCurrentFence + 1
              /\ Len(cmdQueue') = Len(cmdQueue) + 2
              /\ cmdQueue'[Len(cmdQueue) + 1] = [op |-> "exec", slot |-> cur]
              /\ cmdQueue'[Len(cmdQueue) + 2] =
                    [op |-> "signal", value |-> mCurrentFence + 1]
          ]_vars

\* The GPU has reached the stamp of the frame just drawn.
C4_Witness ==
    /\ BetweenTicks
    /\ frFence[cur] = mCurrentFence
    /\ completedValue = mCurrentFence
    /\ tick > gNumFrameResources

\* C5: the global fence counter never decreases and every Draw raises it by
\* exactly one; every slot's fence value is at most the
\* counter, rises strictly whenever the slot is stamped again, and two slots
\* that have been submitted hold different values.
C5_FenceMonotone ==
    /\ [](/\ \A s \in Slots : frFence[s] <= mCurrentFence
          /\ \A s, t \in Slots :
                (s # t /\ frFence[s] # 0 /\ frFence[t] # 0) =>
                    frFence[s] # frFence[t])
    /\ [][ /\ mCurrentFence' >= mCurrentFence
           /\ (pc = "Draw" /\ pc' # "Draw") =>
                  mCurrentFence' = mCurrentFence + 1
           /\ \A s \in Slots :
                  frFence'[s] # frFence[s] => frFence'[s] > frFence[s]
         ]_vars

\* Every slot has been submitted and the first one has been stamped again.
C5_Witness ==
    /\ BetweenTicks
    /\ tick > gNumFrameResources
    /\ \A s \in Slots : frFence[s] # 0

Min(a, b) == IF a < b THEN a ELSE b

\* The k slots that precede slot c in the ring, c included.
RingBack(c, k) ==
    {(c + gNumFrameResources - j) % gNumFrameResources : j \in 0 .. k - 1}

\* The slot of the last object pass and of the last material pass: the current
\* one, or the one before it while this tick's pass is still to come.
Previous(c) == (c + gNumFrameResources - 1) % gNumFrameResources
LastObjectPass ==
    IF pc \in {"Wait", "AnimateMaterials", "UpdateObjectCBs"}
    THEN Previous(cur) ELSE cur
LastMaterialPass ==
    IF pc \in {"Wait", "AnimateMaterials", "UpdateObjectCBs", "UpdateMaterialCBs"}
    THEN Previous(cur) ELSE cur

\* C6: an entity whose counter was set to N is written into one slot per
\* tick, the current one, at its own index: k update passes later (k <= N) the
\* counter is N - k and exactly the k slots of those passes hold its latest
\* data, each written once; from N passes on the counter is 0, every slot
\* holds the data, written exactly once, and nothing more is written.
C6_DirtyPropagation ==
    /\ \A i \in Ritems :
          LET k == Min(objSince[i], gNumFrameResources)
              slots == RingBack(LastObjectPass, k)
          IN  /\ ritemDirty[i] = gNumFrameResources - k
              /\ \A s \in Slots :
                    objWrites[s][i] = IF s \in slots THEN 1 ELSE 0
              /\ \A s \in slots : objectCB[s][i] = << ObjectConstantsOf(i) >>
    /\ \A m \in Materials :
          LET k == Min(matSince[m], gNumFrameResources)
              slots == RingBack(LastMaterialPass, k)
          IN  /\ matDirty[m] = gNumFrameResources - k
              /\ \A s \in Slots :
                    matWrites[s][m] = IF s \in slots THEN 1 ELSE 0
              /\ \A s \in slots :
                    materialCB[s][m] =
                        << MaterialConstantsOf(m, matTransform[m]) >>

\* More than N ticks have passed since a render item and a material were armed.
C6_Witness ==
    /\ objSince[1] > gNumFrameResources
    /\ matSince[0] > gNumFrameResources
    /\ ritemDirty[1] = 0
    /\ matDirty[0] = 0
    /\ objWrites[cur][1] = 1

\* C7: render items start with counter N; with no edits, after N ticks and
\* still after 2*N ticks every render item's counter is 0 and every slot's
\* entry of every item has been written exactly once in total.
C7_NoEditRun ==
    /\ tick = 0 => \A i \in Ritems : ritemDirty[i] = gNumFrameResources
    /\ (BetweenTicks /\ tick >= gNumFrameResources) =>
          \A i \in Ritems :
              /\ ritemDirty[i] = 0
              /\ \A s \in Slots : objWrites[s][i] = 1
    /\ (BetweenTicks /\ tick = 2 * gNumFrameResources) =>
          \A i \in Ritems :
              /\ ritemDirty[i] = 0
              /\ \A s \in Slots :
                    /\ objWrites[s][i] = 1
                    /\ objectCB[s][i] = << ObjectConstantsOf(i) >>

\* Two ring cycles have run.
C7_Witness ==
    /\ BetweenTicks
    /\ tick = 2 * gNumFrameResources
    /\ \A i \in Ritems : objSince[i] = 2 * gNumFrameResources

\* C8: a step that changes a material's transform sets that material's
\* counter to N in the same step; AnimateMaterials is the only step that
\* changes one, and it changes the water material alone.
C8_Rearm ==
    [][ \A m \in Materials :
            matTransform'[m] # matTransform[m] =>
                /\ matDirty'[m] = gNumFrameResources
                /\ pc = "AnimateMaterials"
                /\ m = WaterMat
      ]_vars

\* The water transform has been scrolled while its counter was below N.
C8_Witness ==
    /\ pc = "UpdateObjectCBs"
    /\ tick > 1
    /\ matTransform[WaterMat] # MatTransformOf(0, 0)
    /\ matDirty[WaterMat] = gNumFrameResources

\* C9: when UpdateWaves is done, every vertex of the advanced solution has
\* been written exactly once, at its own index, into the current slot, and
\* no vertex of another slot was written in this tick; only UpdateWaves
\* writes wave vertices, and only those of the current slot.
C9_WaveStreaming ==
    /\ [](pc = "Draw" =>
             /\ mWaves.t = totalTime
             /\ \A v \in Vertices :
                   /\ vbWrites[cur][v] = 1
                   /\ wavesVB[cur][v] = << WaveVertex(mWaves, v) >>
                   /\ \A s \in Slots \ {cur} : vbWrites[s][v] = 0)
    /\ [][ \A s \in Slots :
               wavesVB'[s] # wavesVB[s] => (pc = "UpdateWaves" /\ s = cur)
         ]_vars

\* A slot is streamed for the second time, after a disturb.
C9_Witness ==
    /\ pc = "Draw"
    /\ tick > gNumFrameResources
    /\ mWaves.disturbs > 0
    /\ \A v \in Vertices : vbWrites[cur][v] = 1

\* C10: every draw of the water render item that Draw records refers to the
\* wave vertex buffer of the slot whose constants the same draw refers to,
\* the current slot, which this tick's Update has streamed.
C10_WaterBinding ==
    \A k \in 1 .. Len(mCommandList) :
        mCommandList[k].item = WavesRitem =>
            /\ mCommandList[k].vb = WavesVBOf(mCommandList[k].objCB[1])
            /\ BetweenTicks =>
                  /\ mCommandList[k].vb = WavesVBOf(cur)
                  /\ \A v \in Vertices : vbWrites[cur][v] = 1

\* The water draw has been recorded against a slot that is in its second use.
C10_Witness ==
    /\ BetweenTicks
    /\ tick > gNumFrameResources
    /\ \E k \in 1 .. Len(mCommandList) :
          /\ mCommandList[k].item = WavesRitem
          /\ mCommandList[k].vb = WavesVBOf(cur)

(***************************************************************************)
(* Draw submission.                                                        *)
(***************************************************************************)
\* The layer order the frame is said to follow, and a layer's place in it.
StatedLayerOrder ==
    << "Opaque", "AlphaTested", "AlphaTestedTreeSprites", "Transparent" >>

LayerRank(layer) ==
    CHOOSE r \in 1 .. Len(StatedLayerOrder) : StatedLayerOrder[r] = layer

\* The slot the recorded command list was recorded against.
RecordedSlots ==
    { s \in Slots : BetweenTicks => s = cur }

\* C11: within a frame every draw call of an earlier layer, in the order
\* opaque, alpha-tested, alpha-tested tree sprites, transparent, is recorded
\* before any draw call of a later layer.
C11_LayerOrder ==
    \A k, l \in 1 .. Len(mCommandList) :
        LayerRank(LayerOf(mCommandList[k].item))
            < LayerRank(LayerOf(mCommandList[l].item)) => k < l

C11_Witness ==
    /\ BetweenTicks
    /\ \E k, l, n \in 1 .. Len(mCommandList) :
          /\ k < l /\ l < n
          /\ LayerOf(mCommandList[k].item) = "Opaque"
          /\ LayerOf(mCommandList[l].item) = "AlphaTestedTreeSprites"
          /\ LayerOf(mCommandList[n].item) = "Transparent"

\* The items the recorded command list draws for a layer, in recorded order.
DrawnItems(layer) ==
    LET d == SelectSeq(mCommandList, LAMBDA c : LayerOf(c.item) = layer)
    IN  [k \in 1 .. Len(d) |-> d[k].item]

\* C12: for each layer the recorded draws are exactly the items of the layer
\* list in stored order, none skipped, duplicated or reordered; each is one
\* indexed draw with instance count 1 and the item's own index count, start
\* index and base vertex, bound to the object constants at ObjCBIndex and the
\* material constants at Mat->MatCBIndex of the current frame resource.
C12_DrawRenderItems ==
    mCommandList # << >> =>
        \E s \in RecordedSlots :
            /\ \A layer \in { LayerOf(i) : i \in Ritems } :
                  DrawnItems(layer) = mRitemLayer(layer)
            /\ Len(mCommandList) = NumRitems
            /\ \A k \in 1 .. Len(mCommandList) :
                  LET c == mCommandList[k]
                  IN  /\ c.instances = 1
                      /\ c.IndexCount = RitemDrawArgs(c.item).IndexCount
                      /\ c.StartIndexLocation
                            = RitemDrawArgs(c.item).StartIndexLocation
                      /\ c.BaseVertexLocation
                            = RitemDrawArgs(c.item).BaseVertexLocation
                      /\ c.objCB = << s, ObjCBIndex(c.item) >>
                      /\ c.matCB = << s, RitemMat(c.item) >>

C12_Witness ==
    /\ BetweenTicks
    /\ tick > gNumFrameResources
    /\ Len(mRitemLayer("Opaque")) > 1
    /\ DrawnItems("Opaque") = mRitemLayer("Opaque")
    /\ \A k \in 1 .. Len(mCommandList) : mCommandList[k].objCB[1] = cur

\* C13: the ObjCBIndex values are pairwise distinct and are the numbers
\* 0 .. count-1 in build order; every pass of Update writes an item's
\* constants at that index and every recorded draw addresses it, so the
\* element at an item's index never holds another item's constants.
C13_ObjCBIndex ==
    /\ \A i, j \in Ritems : i # j => ObjCBIndex(i) # ObjCBIndex(j)
    /\ { ObjCBIndex(i) : i \in Ritems } = 0 .. NumRitems - 1
    /\ \A i \in Ritems : ObjCBIndex(i) = i
    /\ \A s \in Slots : \A i \in Ritems :
          objectCB[s][ObjCBIndex(i)] # << >> =>
              objectCB[s][ObjCBIndex(i)][1].World
                  = XMMatrixTranspose(RitemWorld(i))
    /\ \A k \in 1 .. Len(mCommandList) :
          mCommandList[k].objCB[2] = ObjCBIndex(mCommandList[k].item)

C13_Witness ==
    /\ BetweenTicks
    /\ tick > gNumFrameResources
    /\ \A s \in Slots : \A i \in Ritems : objectCB[s][ObjCBIndex(i)] # << >>
    /\ \E k, l \in 1 .. Len(mCommandList) :
          mCommandList[k].objCB[2] # mCommandList[l].objCB[2]

\* The capacity of an upload buffer: the number of its elements.
Capacity(buf) == Cardinality(DOMAIN buf)

\* Position of a build step in Initialize.
BuildPosition(step) ==
    CHOOSE r \in 1 .. Len(InitializeOrder) : InitializeOrder[r] = step

\* C14: the frame resources are built after the materials and the render
\* items, with object capacity = render-item count, material capacity =
\* material count and wave capacity = wave vertex count; every ObjCBIndex,
\* MatCBIndex and wave vertex index written or addressed is below the
\* capacity of its buffer.
C14_Capacities ==
    /\ BuildPosition("BuildMaterials") < BuildPosition("BuildFrameResources")
    /\ BuildPosition("BuildRenderItems") < BuildPosition("BuildFrameResources")
    /\ \A s \in Slots :
          /\ Capacity(objectCB[s]) = NumRitems
          /\ Capacity(materialCB[s]) = NumMaterials
          /\ Capacity(wavesVB[s]) = VertexCount
          /\ \A i \in Ritems :
                /\ ObjCBIndex(i) \in DOMAIN objectCB[s]
                /\ ObjCBIndex(i) < Capacity(objectCB[s])
          /\ \A m \in Materials :
                m \in DOMAIN materialCB[s] /\ m < Capacity(materialCB[s])
          /\ \A v \in Vertices :
                v \in DOMAIN wavesVB[s] /\ v < Capacity(wavesVB[s])
    /\ \A k \in 1 .. Len(mCommandList) :
          LET c == mCommandList[k]
          IN  /\ c.objCB[2] < Capacity(objectCB[c.objCB[1]])
              /\ c.matCB[2] < Capacity(materialCB[c.matCB[1]])

C14_Witness ==
    /\ BetweenTicks
    /\ objectCB[cur][NumRitems - 1] # << >>
    /\ materialCB[cur][NumMaterials - 1] # << >>
    /\ wavesVB[cur][VertexCount - 1] # << >>
    /\ \E k \in 1 .. Len(mCommandList) :
          mCommandList[k].objCB[2] = NumRitems - 1

(***************************************************************************)
(* Shutdown and failure.                                                   *)
(***************************************************************************)
\* C15: once the destructor has run with a live device and the resources
\* are released, the device has completed every fence value handed out: no
\* slot's stamp is above the completed value and nothing submitted is still
\* in the queue.
C15_ShutdownDrains ==
    pc = "Released" =>
        /\ \A s \in Slots : frFence[s] <= completedValue
        /\ \A s \in Slots : ~PendingExec(cmdQueue, s)
        /\ completedValue >= mCurrentFence
        /\ cmdQueue = << >>

C15_Witness ==
    /\ pc = "Released"
    /\ tick > gNumFrameResources
    /\ \A s \in Slots : frFence[s] > InitFence

\* The thread is blocked in the wait of Update on a value the device will not
\* reach.
WaitNeverCompletes ==
    /\ pc = "Wait"
    /\ gpu # "running"
    /\ ~FenceReached(frFence[mCurrFrameResourceIndex], completedValue)

\* C16: whenever the wait of Update is on a value the device will never
\* reach, hung or removed, the step that ends the loop in the fatal error
\* shown to the user can be taken.
C16_NeverCompletingWaitIsFatal ==
    WaitNeverCompletes => ENABLED SetEventOnCompletionFails

\* The case: the GPU hangs while Update is blocked on it.  The removed device
\* does end the loop in the message box.
C16_Witness ==
    /\ WaitNeverCompletes
    /\ gpu = "hung"
    /\ ~ENABLED NextLifetime

(***************************************************************************)
(* The order of a tick.                                                    *)
(***************************************************************************)
StepKind(step) == IF step \in WritePhases THEN "write" ELSE step

RankIn(order, step) ==
    CHOOSE r \in 1 .. Len(order) : order[r] = StepKind(step)

\* The steps logged for the current tick follow the given order, and only
\* the writes occur more than once.
TickFollows(order) ==
    \A k, l \in 1 .. Len(tickLog) :
        k < l =>
            /\ RankIn(order, tickLog[k]) <= RankIn(order, tickLog[l])
            /\ tickLog[k] # tickLog[l]

\* C17, as stated: select, wait, writes, record, submit, fence signal,
\* present.
C17_SignalThenPresent ==
    TickFollows(<< "select", "wait", "write", "record", "submit", "signal",
                   "present" >>)

\* C17, amended: the steps of a tick follow the order select, wait if the
\* GPU is behind, the writes into the slot, recording against the slot,
\* submission, present, fence signal; a finished tick has made every step,
\* the wait exactly when it had to block.
C17_TickOrder ==
    /\ TickFollows(<< "select", "wait", "write", "record", "submit",
                      "present", "signal" >>)
    /\ BetweenTicks =>
          /\ { tickLog[k] : k \in 1 .. Len(tickLog) } \ {"wait"}
                = {"select", "record", "submit", "present", "signal"}
                     \cup WritePhases
          /\ waited <=> \E k \in 1 .. Len(tickLog) : tickLog[k] = "wait"
          /\ cpuWrite.slot = cur
          /\ \A k \in 1 .. Len(mCommandList) : mCommandList[k].objCB[1] = cur

C17_Witness ==
    /\ BetweenTicks
    /\ waited
    /\ tickLog[2] = "wait"
    /\ tickLog[Len(tickLog)] = "signal"
    /\ tickLog[Len(tickLog) - 1] = "present"

(***************************************************************************)
(* The first slot.                                                         *)
(***************************************************************************)
\* C20, as stated: the slots of successive ticks are 0,1,2,0,1,2,..., the
\* first tick using slot 0.
C20_FirstTickSlotZero ==
    tick > 0 => cur = (tick - 1) % gNumFrameResources

\* C20, amended: the slots of successive ticks are 1,2,0,1,2,0,...: the
\* index starts at 0 and is advanced before it is used, so the first tick
\* uses slot 1.
C20_SlotSequence ==
    tick > 0 => cur = tick % gNumFrameResources

C20_Witness ==
    /\ tick = 1
    /\ pc = "Draw"
    /\ cur = 1
    /\ cpuWrite.slot = 1

(***************************************************************************)
(* The wave field.                                                         *)
(***************************************************************************)
LastWaveCall == waveCalls[Len(waveCalls)]

\* How much the last call raised the height of a cell.
Raised(c) == waveField.current[c] - waveBefore[c]

WaveCorners ==
    { << 0, 0 >>, << 0, WaveCols - 1 >>, << WaveRows - 1, 0 >>,
      << WaveRows - 1, WaveCols - 1 >> }

\* C18: right after a disturb of positive magnitude at a cell, the height of
\* the cell and of each of its four neighbours is higher than before, the
\* centre by another amount than the neighbours, and every other cell has
\* the height it had.
C18_DisturbLocality ==
    (waveCalls # << >> /\ LastWaveCall.op = "disturb") =>
        LET centre == LastWaveCall.cell
        IN  /\ LastWaveCall.magnitude > 0
            /\ centre \in WaveInterior
            /\ Raised(centre) > 0
            /\ \A n \in WaveNeighbours(centre) :
                  /\ Raised(n) > 0
                  /\ Raised(n) # Raised(centre)
            /\ \A c \in WaveCells \ ({centre} \cup WaveNeighbours(centre)) :
                  Raised(c) = 0

C18_Witness ==
    /\ Len(waveCalls) = 3
    /\ waveCalls[1].op = "disturb"
    /\ waveCalls[2].op = "advance" /\ waveCalls[2].steps > 0
    /\ waveCalls[3].op = "disturb"
    /\ \E c \in WaveCells : waveBefore[c] # 0 /\ Raised(c) = 0
    /\ Raised(LastWaveCall.cell) = LastWaveCall.magnitude

\* C19: under any sequence of disturbs, at cells whose four neighbours are
\* interior, and of advances, every boundary vertex, the four corners among
\* them, keeps the height 0 in both grids; after one disturb and an advance
\* of one step the disturbed cell is above 0 and the corners are at 0.
C19_BoundaryPinned ==
    /\ \A c \in WaveBoundary :
          waveField.current[c] = 0 /\ waveField.previous[c] = 0
    /\ WaveCorners \subseteq WaveBoundary
    /\ ( /\ Len(waveCalls) = 2
         /\ waveCalls[1].op = "disturb"
         /\ waveCalls[2].op = "advance"
         /\ waveCalls[2].steps = 1 ) =>
            /\ waveField.current[waveCalls[1].cell] > 0
            /\ \A c \in WaveCorners : waveField.current[c] = 0

C19_Witness ==
    /\ Len(waveCalls) = 2
    /\ waveCalls[1].op = "disturb"
    /\ waveCalls[1].cell = << 2, 2 >>
    /\ waveCalls[1].magnitude = MagHigh
    /\ waveCalls[2].op = "advance"
    /\ waveCalls[2].steps = 1
    /\ waveField.current[<< 2, 2 >>] > MagHigh
    /\ \E c \in WaveInterior \ {<< 2, 2 >>} : waveField.current[c] > 0

(***************************************************************************)
(* The meaning of the dirty counters.                                      *)
(***************************************************************************)
\* The slots whose entry of an entity is not the entity's latest data.
StaleObjectSlots(i) ==
    { s \in Slots : objectCB[s][ObjCBIndex(i)] # << ObjectConstantsOf(i) >> }

StaleMaterialSlots(m) ==
    { s \in Slots :
        materialCB[s][m] # << MaterialConstantsOf(m, matTransform[m]) >> }

\* The k slots that follow slot c in the ring.
RingAhead(c, k) == { (c + j) % gNumFrameResources : j \in 1 .. k }

\* C21: between ticks every counter is in 0..N and is the number of slots
\* whose entry of the entity is not its latest data, and those slots are the
\* next 'counter' slots of the ring after the current one; a counter goes
\* down only from a positive value, by 1, once per tick, in the step that
\* writes the entity into the current slot.
C21_CounterMeaning ==
    /\ [](pc = "Update" =>
             /\ \A i \in Ritems :
                   /\ ritemDirty[i] \in 0 .. gNumFrameResources
                   /\ Cardinality(StaleObjectSlots(i)) = ritemDirty[i]
                   /\ StaleObjectSlots(i) = RingAhead(cur, ritemDirty[i])
             /\ \A m \in Materials :
                   /\ matDirty[m] \in 0 .. gNumFrameResources
                   /\ Cardinality(StaleMaterialSlots(m)) = matDirty[m]
                   /\ StaleMaterialSlots(m) = RingAhead(cur, matDirty[m]))
    /\ [][ /\ \A i \in Ritems :
                 ritemDirty'[i] < ritemDirty[i] =>
                     /\ ritemDirty[i] > 0
                     /\ ritemDirty'[i] = ritemDirty[i] - 1
                     /\ pc = "UpdateObjectCBs"
                     /\ objWrites'[cur][i] = objWrites[cur][i] + 1
                     /\ objectCB'[cur][ObjCBIndex(i)] = << ObjectConstantsOf(i) >>
           /\ \A m \in Materials :
                 matDirty'[m] < matDirty[m] =>
                     /\ matDirty[m] > 0
                     /\ matDirty'[m] = matDirty[m] - 1
                     /\ pc = "UpdateMaterialCBs"
                     /\ matWrites'[cur][m] = matWrites[cur][m] + 1
                     /\ materialCB'[cur][m]
                           = << MaterialConstantsOf(m, matTransform[m]) >>
         ]_vars

\* A tick has ended with the water material stale in two slots and the other
\* entities still stale in one.
C21_Witness ==
    /\ BetweenTicks
    /\ tick = gNumFrameResources - 1
    /\ ritemDirty[1] = 1
    /\ StaleObjectSlots(1) = RingAhead(cur, 1)
    /\ matDirty[WaterMat] = gNumFrameResources - 1
    /\ Cardinality(StaleMaterialSlots(WaterMat)) = gNumFrameResources - 1

(***************************************************************************)
(* Ownership of the slots.                                                 *)
(***************************************************************************)
\* Everything a slot owns that the CPU can change.
SlotChanges(s) ==
    \/ objectCB'[s] # objectCB[s]
    \/ materialCB'[s] # materialCB[s]
    \/ passCB'[s] # passCB[s]
    \/ wavesVB'[s] # wavesVB[s]
    \/ cmdListAlloc'[s] # cmdListAlloc[s]
    \/ frFence'[s] # frFence[s]

\* C22: a step changes the buffers, the command allocator or the fence value
\* of the selected slot only, and only in the write calls of Update and in
\* Draw; it finds the slot selected by this tick's Update, its last stamp
\* completed and none of its command lists still in the queue, so that a
\* submitted slot is not changed again before a later Update has selected it
\* and passed the fence check.
C22_ExclusiveOwnership ==
    [][ \A s \in Slots :
            SlotChanges(s) =>
                /\ s = cur
                /\ pc \in WritePhases \cup {"Draw"}
                /\ selHistory[Len(selHistory)] = s
                /\ FenceReached(frFence[s], completedValue)
                /\ ~PendingExec(cmdQueue, s)
      ]_vars

\* A tick that had to wait is writing its slot while the other two slots have
\* work outstanding or just completed.
C22_Witness ==
    /\ pc = "UpdateWaves"
    /\ waited
    /\ tick > gNumFrameResources
    /\ cpuWrite.slot = cur
    /\ \E s \in Slots \ {cur} : PendingExec(cmdQueue, s)

\* C23: the step that resets a slot's command allocator finds the completed
\* fence value at or above the value the slot was last stamped with, 0 if it
\* was never submitted, and no command list recorded with the allocator still
\* in the queue.
C23_AllocatorReset ==
    [][ \A s \in Slots :
            cmdListAlloc'[s].resets # cmdListAlloc[s].resets =>
                /\ pc = "Draw"
                /\ cmdListAlloc'[s].resets = cmdListAlloc[s].resets + 1
                /\ completedValue >= frFence[s]
                /\ ~PendingExec(cmdQueue, s)
      ]_vars

\* An allocator has been reset for the second time, by a tick that waited.
C23_Witness ==
    /\ BetweenTicks
    /\ waited
    /\ cmdListAlloc[cur].resets = 2
    /\ cmdListAlloc[cur].commands = mCommandList
    /\ frFence[cur] = mCurrentFence

(***************************************************************************)
(* The caller of disturb.                                                  *)
(***************************************************************************)
\* C24: every cell UpdateWaves passes to Disturb has its row in
\* [4, RowCount-5] and its column in [4, ColumnCount-5], so that the cell and
\* its four neighbours are interior cells of the 305 x 150 grid.
C24_DisturbInContract ==
    disturbAt # << >> =>
        LET i == disturbAt[1]
            j == disturbAt[2]
        IN  /\ i >= 4 /\ i <= RowCount - 5
            /\ j >= 4 /\ j <= ColumnCount - 5
            /\ \A c \in { << i, j >>, << i - 1, j >>, << i + 1, j >>,
                          << i, j - 1 >>, << i, j + 1 >> } :
                  /\ c[1] >= 1 /\ c[1] <= RowCount - 2
                  /\ c[2] >= 1 /\ c[2] <= ColumnCount - 2

\* The disturb at the far end of both ranges.
C24_Witness ==
    disturbAt = << RowCount - 5, ColumnCount - 5 >>

(***************************************************************************)
(* Freshness of what a draw reads.                                         *)
(***************************************************************************)
\* The entries a recorded draw addresses hold its item's and its material's
\* latest data.
DrawReadsLatest(c) ==
    /\ objectCB[c.objCB[1]][c.objCB[2]] = << ObjectConstantsOf(c.item) >>
    /\ materialCB[c.matCB[1]][c.matCB[2]]
          = << MaterialConstantsOf(RitemMat(c.item),
                                   matTransform[RitemMat(c.item)]) >>

\* C25: when Draw runs, and when it has recorded, the current slot's entry
\* of every render item and of every material is the entity's latest data,
\* never an unwritten or an older one, from the first tick on and in the
\* ticks that edit the water material; so is every entry a recorded draw
\* addresses.
C25_FreshAtDraw ==
    /\ (pc = "Draw" \/ BetweenTicks) =>
          /\ \A i \in Ritems :
                objectCB[cur][ObjCBIndex(i)] = << ObjectConstantsOf(i) >>
          /\ \A m \in Materials :
                materialCB[cur][m]
                    = << MaterialConstantsOf(m, matTransform[m]) >>
    /\ BetweenTicks =>
          \A k \in 1 .. Len(mCommandList) : DrawReadsLatest(mCommandList[k])

\* Draw has recorded in a tick after the first ring cycle, in which the water
\* material was edited and the other entities were not written.
C25_Witness ==
    /\ BetweenTicks
    /\ tick > gNumFrameResources
    /\ matTransform[WaterMat] # MatTransformOf(0, 0)
    /\ matDirty[0] = 0
    /\ \E k \in 1 .. Len(mCommandList) :
          /\ mCommandList[k].item = WavesRitem
          /\ DrawReadsLatest(mCommandList[k])

(***************************************************************************)
(* Progress.                                                               *)
(***************************************************************************)
\* A signal of at least the given value is in the queue.
SignalEnqueued(value) ==
    \E k \in 1 .. Len(cmdQueue) :
        cmdQueue[k].op = "signal" /\ cmdQueue[k].value >= value

\* C26: with a GPU that completes every signal enqueued, Update waits only
\* on a value that is at most the global fence value and whose signal has
\* been enqueued; every wait of Update returns, and the loop completes every
\* tick the bound allows, one after the other.
C26_Progress ==
    /\ [](pc = "Wait" =>
             /\ frFence[cur] <= mCurrentFence
             /\ completedValue >= frFence[cur] \/ SignalEnqueued(frFence[cur]))
    /\ (pc = "Wait") ~> (pc = "AnimateMaterials")
    /\ <>(tick = MaxTicks /\ pc = "Update")

\* The last tick has completed after having waited on the fence.
C26_Witness ==
    /\ tick = MaxTicks
    /\ pc = "Update"
    /\ waited
    /\ completedValue >= frFence[cur] - 1

(***************************************************************************)
(* The cadence of the disturbs.                                            *)
(***************************************************************************)
\* C30: the time base never exceeds the total time and the disturbs issued
\* are the quarter seconds of the time base, at most floor(total / 0.25 s);
\* a disturb is issued by UpdateWaves only, one per tick, exactly when the
\* total time is at least 0.25 s past the time base, which then advances by
\* 0.25 s, so that disturbs missed by a long tick follow one per tick; the
\* disturb has been advanced and copied when UpdateWaves is done.
C30_DisturbCadence ==
    /\ [](/\ t_base <= totalTime
          /\ mWaves.disturbs * QuarterSecond = t_base
          /\ mWaves.disturbs <= totalTime \div QuarterSecond
          /\ mWaves.disturbs <= tick
          /\ mWaves.unadvanced = 0
          /\ pc = "Draw" =>
                \A v \in Vertices : wavesVB[cur][v] = << WaveVertex(mWaves, v) >>)
    /\ [][ /\ (mWaves'.disturbs # mWaves.disturbs \/ t_base' # t_base) =>
                 /\ pc = "UpdateWaves"
                 /\ totalTime - t_base >= QuarterSecond
                 /\ mWaves'.disturbs = mWaves.disturbs + 1
                 /\ t_base' = t_base + QuarterSecond
           /\ (pc = "UpdateWaves" /\ pc' = "Draw"
                  /\ totalTime - t_base >= QuarterSecond) =>
                 mWaves'.disturbs = mWaves.disturbs + 1
         ]_vars

\* A long tick has left more than one disturb due: this tick issued one and
\* the next is still owed.
C30_Witness ==
    /\ pc = "Draw"
    /\ deltaTime = MaxDelta
    /\ mWaves.disturbs > 1
    /\ totalTime - t_base >= QuarterSecond
    /\ mWaves.disturbs < totalTime \div QuarterSecond

(***************************************************************************)
(* How far the CPU runs ahead.                                             *)
(***************************************************************************)
\* The frames submitted whose fence value the GPU has not reached yet, and
\* those among them whose command list is still in the queue.
FramesInFlight == mCurrentFence - completedValue

FramesQueued ==
    Cardinality({ k \in 1 .. Len(cmdQueue) : cmdQueue[k].op = "exec" })

\* C27: under every interleaving of the frame loop and the GPU at most N
\* frames are submitted and not completed, after Draw too, and at most N - 1
\* once an Update is past its fence check.
C27_BoundedLead ==
    /\ FramesInFlight >= 0
    /\ FramesInFlight <= gNumFrameResources
    /\ FramesQueued <= FramesInFlight
    /\ pc \in WritePhases \cup {"Draw"} =>
          FramesInFlight <= gNumFrameResources - 1

\* The limit is met: a Draw that followed a wait has left N frames in
\* flight, all of them still in the queue.
C27_Witness ==
    /\ BetweenTicks
    /\ waited
    /\ FramesInFlight = gNumFrameResources
    /\ FramesQueued = gNumFrameResources

(***************************************************************************)
(* The layers partition the render items.                                  *)
(***************************************************************************)
RenderLayers == { "Opaque", "Transparent", "AlphaTested", "AlphaTestedTreeSprites" }

\* The places an item has in the list of a layer, and in the command list.
PlacesIn(layer, i) ==
    { k \in 1 .. Len(mRitemLayer(layer)) : mRitemLayer(layer)[k] = i }

DrawsOf(i) == { k \in 1 .. Len(mCommandList) : mCommandList[k].item = i }

\* C28: every item of mAllRitems is in the list of exactly one layer, once,
\* and every entry of a layer list is an item of mAllRitems; a recorded
\* frame draws every item exactly once, so its draw calls are as many as the
\* items.
C28_LayerPartition ==
    /\ \A i \in Ritems :
          /\ \E k \in 1 .. Len(mAllRitems) : mAllRitems[k] = i
          /\ Cardinality({ layer \in RenderLayers : PlacesIn(layer, i) # {} }) = 1
          /\ \A layer \in RenderLayers : Cardinality(PlacesIn(layer, i)) <= 1
    /\ \A layer \in RenderLayers :
          \A k \in 1 .. Len(mRitemLayer(layer)) :
              mRitemLayer(layer)[k] \in Ritems
    /\ mCommandList # << >> =>
          /\ Len(mCommandList) = Len(mAllRitems)
          /\ \A i \in Ritems : Cardinality(DrawsOf(i)) = 1

C28_Witness ==
    /\ BetweenTicks
    /\ Len(mCommandList) = NumRitems
    /\ Cardinality({ layer \in RenderLayers : mRitemLayer(layer) # << >> }) = 3
    /\ \A i \in Ritems : DrawsOf(i) # {}

(***************************************************************************)
(* The water material stays dirty; the other materials settle.             *)
(***************************************************************************)
\* The five calls of Update have all returned for the tick.
UpdateDone == pc = "Draw" \/ BetweenTicks

\* UpdateMaterialCBs has returned for the tick.
MaterialCBsDone == pc \in { "UpdateMainPassCB", "UpdateWaves" } \/ UpdateDone

\* The writes of a material's record since the material was last edited.
RECURSIVE MaterialWritesFrom(_, _)
MaterialWritesFrom(m, s) ==
    IF s >= gNumFrameResources THEN 0
    ELSE matWrites[s][m] + MaterialWritesFrom(m, s + 1)

MaterialWrites(m) == MaterialWritesFrom(m, 0)

\* C29: the water material's counter is never 0 and is N - 1 whenever
\* UpdateMaterialCBs has returned, with the record of the tick's slot written
\* in that tick; every other material is written at most once per slot, once
\* in each of the first N ticks, and from then on has counter 0 and all N
\* slots written exactly once.
C29_WaterAlwaysDirty ==
    /\ matDirty[WaterMat] \in { gNumFrameResources - 1, gNumFrameResources }
    /\ tick > 0 /\ MaterialCBsDone =>
          /\ matDirty[WaterMat] = gNumFrameResources - 1
          /\ matWrites[mCurrFrameResource][WaterMat] = 1
          /\ matSince[WaterMat] = 1
          /\ materialCB[mCurrFrameResource][WaterMat]
                = << MaterialConstantsOf(WaterMat, matTransform[WaterMat]) >>
    /\ \A m \in Materials \ { WaterMat } :
          /\ \A s \in Slots : matWrites[s][m] <= 1
          /\ tick > 0 /\ MaterialCBsDone =>
                /\ MaterialWrites(m) = Min(tick, gNumFrameResources)
                /\ matDirty[m] = gNumFrameResources - Min(tick, gNumFrameResources)
                /\ tick <= gNumFrameResources => matWrites[mCurrFrameResource][m] = 1

C29_Witness ==
    /\ BetweenTicks
    /\ tick > gNumFrameResources + 1
    /\ matDirty[WaterMat] = gNumFrameResources - 1
    /\ matWrites[mCurrFrameResource][WaterMat] = 1
    /\ \A m \in Materials \ { WaterMat } :
          matDirty[m] = 0 /\ MaterialWrites(m) = gNumFrameResources

====
